---- MODULE Spec2Model ----
(***************************************************************************)
(* Model of the speech-feedback backend (roma160/Tech-Munich25).           *)
(*                                                                         *)
(*  - Annotation Locator: services/language_feedback.py                    *)
(*      __find_substring_range, __convert_error_item_to_ranged,            *)
(*      __convert_vocab_item_to_ranged, __convert_to_ranges                *)
(*  - Located record types: models/language_feedback.py                    *)
(*  - Speaker-turn segmentation: models/elevenlabs.py                      *)
(*                                                                         *)
(* Strings are sequences of one-character strings.  Offsets keep Python's  *)
(* 0-based, end-exclusive convention; s[k+1] is Python's s[k].             *)
(* Optional values: None is the empty tuple.                               *)
(***************************************************************************)
EXTENDS Integers, Sequences, FiniteSets, TLC

VARIABLES
    elevenlabs_segments,  \* Locator input: the segment contents, in order
    response,             \* Locator input: EvaluationResponse (three item lists)
    stage,                \* which loop of __convert_to_ranges runs, or "returned"
    k,                    \* number of items of the current list already handled
    lpc,                  \* position inside the per-item conversion, or "raised"
    i,                    \* enumerate() index of the segment being scanned
    last_idx,             \* search start of the while loop (error items)
    ranges,               \* local list `ranges` of the error-item conversion
    range,                \* local `range` of the vocab-item conversion
    mistakes,             \* output list under construction
    inaccuracies,         \* output list under construction
    vocabularies,         \* output list under construction
    warned,               \* items for which logger.warning was called, in order
    in_batch,             \* what a scan located inside a batch, kept for comparison
    words,                \* ElevenLabsOutput.words
    text,                 \* ElevenLabsOutput.text
    spc,                  \* position inside extract_segments
    pos,                  \* position of the for loop in words
    current_sequence,     \* local list of _extract_speaker_sequences
    current_speaker,      \* local of _extract_speaker_sequences
    sequences,            \* local list of _extract_speaker_sequences
    segments,             \* what extract_segments returns
    returned,             \* what the earlier calls of extract_segments returned
    hypothesis,           \* the recognized phoneme sequence
    reference_words,      \* the per-word reference phoneme sequences
    apc,                  \* position inside the aligner
    table,                \* the dynamic-programming table of the LCS
    back_i,               \* backward walk: position in the hypothesis
    back_j,               \* backward walk: position in the flat reference
    lcs,                  \* the reconstructed LCS
    word_idx,             \* forward walk: the reference word
    sym_idx,              \* forward walk: the symbol inside the word
    hyp_cursor,           \* forward walk: cursor in the hypothesis
    lcs_cursor,           \* forward walk: cursor in the LCS
    recognizedChunk,      \* the recognized chunk of the word under way
    pairs,                \* the (recognizedChunk, referenceChunk) pairs
    active_processes,     \* main.py's registry: the record of id n at place n
    runs,                 \* the scheduled calls of process_wav_file
    polled,               \* what GET /status last answered the polling client
    client_pc,            \* position of the polling client's loop
    files,                \* the ids n whose temp_{n}.wav exists
    reply                 \* the endpoint and status code of the last answer

locvars == <<elevenlabs_segments, response, stage, k, lpc, i, last_idx,
             ranges, range, mistakes, inaccuracies, vocabularies, warned,
             in_batch>>

segvars == <<words, text, spc, pos, current_sequence, current_speaker,
             sequences, segments, returned>>

alnvars == <<hypothesis, reference_words, apc, table, back_i, back_j, lcs,
             word_idx, sym_idx, hyp_cursor, lcs_cursor, recognizedChunk,
             pairs>>

jobvars == <<active_processes, runs, polled, client_pc, files, reply>>

\* What the locator, the segmentation, the aligner and the API each leave
\* alone.
notloc == <<segvars, alnvars, jobvars>>
notseg == <<locvars, alnvars, jobvars>>
notaln == <<locvars, segvars, jobvars>>
notjob == <<locvars, alnvars>>

vars == <<locvars, segvars, alnvars, jobvars>>

----------------------------------------------------------------------------
(* Bounds *)

MaxSegs == 3
MaxChars == 3
MaxQuoteLen == 2
BatchMaxSegs == 2
BatchMaxChars == 2
MaxItems == 2
MaxWords == 3
MaxCalls == 2
MaxHyp == 3
MaxRefWords == 2
MaxRefLen == 3
MaxProcs == 1
MaxRuns == 1
JobMaxWords == 2
ApiMaxProcs == 2
ApiMaxRuns == 2
LiveMaxRuns == 1

Alphabet == {"a", "b"}

\* Quotes of the batch runs: the empty quote and the one-character quotes.
BatchQuotes == {<<>>, <<"a">>, <<"b">>}

None == <<>>

Strs(n) == UNION {[1..m -> Alphabet] : m \in 0..n}

\* Python's q[a:b] for 0 <= a <= b <= len(q).
Slice(q, a, b) == [n \in 1..(b - a) |-> q[a + n]]

RECURSIVE SumLen(_)
SumLen(s) == IF s = <<>> THEN 0 ELSE Len(Head(s)) + SumLen(Tail(s))

\* Segment lists of at most maxSegs segments and maxChars characters in all.
SegLists(maxSegs, maxChars) ==
    {s \in UNION {[1..m -> Strs(maxChars)] : m \in 0..maxSegs} :
        SumLen(s) <= maxChars}

\* The while loop appends at most one range per character of a non-empty
\* quote's segment; one more leaves room to see a scan that appends without end.
RangeCap == Len(elevenlabs_segments) + SumLen(elevenlabs_segments) + 1

----------------------------------------------------------------------------
(* models/language_feedback.py *)

\* ErrorItem: quote, error_type, correction.  The metadata of the n-th item
\* of a list is the tag n: the code never inspects it.
ErrorItem(q, n) == [quote |-> q, error_type |-> n, correction |-> n]

\* VocabItem: quote, synonyms.
VocabItem(q, n) == [quote |-> q, synonyms |-> <<n>>]

ValidationError == [error |-> "ValidationError"]

IsError(r) == "error" \in DOMAIN r

\* pydantic construction of ErrorItemRanged from keyword arguments: fields
\* without a default (error_type, correction, quote) are required.
ErrorItemRanged(kwargs) ==
    IF {"error_type", "correction", "quote"} \subseteq DOMAIN kwargs
    THEN [ranges |-> IF "ranges" \in DOMAIN kwargs THEN kwargs.ranges ELSE None,
          error_type |-> kwargs.error_type,
          correction |-> kwargs.correction,
          quote |-> kwargs.quote,
          found_range |-> TRUE]
    ELSE ValidationError

\* pydantic construction of VocabItemRanged: synonyms and quote are required.
VocabItemRanged(kwargs) ==
    IF {"synonyms", "quote"} \subseteq DOMAIN kwargs
    THEN [range |-> IF "range" \in DOMAIN kwargs THEN kwargs.range ELSE None,
          synonyms |-> kwargs.synonyms,
          quote |-> kwargs.quote,
          found_range |-> TRUE]
    ELSE ValidationError

----------------------------------------------------------------------------
(* services/language_feedback.py: the Locator *)

Min(S) == CHOOSE x \in S : \A y \in S : x <= y

\* Whether substring occurs in full_string at 0-based offset s.
OccursAt(full_string, substring, s) ==
    /\ s >= 0
    /\ s + Len(substring) <= Len(full_string)
    /\ \A j \in 1..Len(substring) : full_string[s + j] = substring[j]

\* Mutant: the end offset is one short.
find_substring_range_short(full_string, substring, start_from) ==
    LET hits == {s \in start_from..Len(full_string) :
                    OccursAt(full_string, substring, s)}
    IN  IF hits = {} THEN None
        ELSE <<Min(hits), Min(hits) + Len(substring) - 1>>

\* __find_substring_range: str.index(substring, start_from) gives the lowest
\* offset >= start_from where substring occurs and raises otherwise; the
\* bare except turns that into None.
find_substring_range(full_string, substring, start_from) ==
    LET hits == {s \in start_from..Len(full_string) :
                    OccursAt(full_string, substring, s)}
    IN  IF hits = {} THEN None
        ELSE <<Min(hits), Min(hits) + Len(substring)>>

IsErrorStage == stage \in {"mistakes", "inaccuracies"}

\* The item the current loop of __convert_to_ranges is at.
CurItem == response[stage][k + 1]

\* Mutant: the segment index of the previous conversion is carried over.
CallConvert_KeepIndex ==
    /\ stage \in {"mistakes", "inaccuracies", "vocabularies"}
    /\ lpc = "loop"
    /\ k < Len(response[stage])
    /\ lpc' = "for"
    /\ ranges' = <<>>
    /\ range' = None
    /\ UNCHANGED <<elevenlabs_segments, response, stage, k, i, last_idx,
                   mistakes, inaccuracies, vocabularies, warned, in_batch>>
    /\ UNCHANGED notloc

\* Loop header of the three for loops of __convert_to_ranges: the next item
\* is handed to its conversion, which starts with fresh locals.
CallConvert ==
    /\ stage \in {"mistakes", "inaccuracies", "vocabularies"}
    /\ lpc = "loop"
    /\ k < Len(response[stage])
    /\ lpc' = "for"
    /\ i' = 0
    /\ ranges' = <<>>
    /\ range' = None
    /\ UNCHANGED <<elevenlabs_segments, response, stage, k, last_idx,
                   mistakes, inaccuracies, vocabularies, warned,
                   in_batch>>
    /\ UNCHANGED notloc

\* A list is exhausted: the next loop starts, and after the last one the
\* EvaluationResponseRanged is built and returned.
NextList ==
    /\ stage \in {"mistakes", "inaccuracies", "vocabularies"}
    /\ lpc = "loop"
    /\ k = Len(response[stage])
    /\ stage' = CASE stage = "mistakes" -> "inaccuracies"
                  [] stage = "inaccuracies" -> "vocabularies"
                  [] OTHER -> "returned"
    /\ k' = 0
    /\ UNCHANGED <<elevenlabs_segments, response, lpc, i, last_idx, ranges,
                   range, mistakes, inaccuracies, vocabularies, warned,
                   in_batch>>
    /\ UNCHANGED notloc

\* Mutant: the for loop scans the odd segments too.
ErrorFor_AllSegments ==
    /\ stage \in {"mistakes", "inaccuracies"}
    /\ lpc = "for"
    /\ IF i < Len(elevenlabs_segments)
       THEN /\ last_idx' = 0
            /\ lpc' = "while"
            /\ UNCHANGED i
       ELSE /\ lpc' = "ret"
            /\ UNCHANGED <<i, last_idx>>
    /\ UNCHANGED <<elevenlabs_segments, response, stage, k, ranges, range,
                   mistakes, inaccuracies, vocabularies, warned,
                   in_batch>>
    /\ UNCHANGED notloc

\* __convert_error_item_to_ranged, for loop header: odd segments are
\* skipped, an even one starts the while loop at offset 0.
ErrorFor ==
    /\ IsErrorStage
    /\ lpc = "for"
    /\ IF i < Len(elevenlabs_segments)
       THEN IF i % 2 = 1
            THEN /\ i' = i + 1
                 /\ UNCHANGED <<lpc, last_idx>>
            ELSE /\ last_idx' = 0
                 /\ lpc' = "while"
                 /\ UNCHANGED i
       ELSE /\ lpc' = "ret"
            /\ UNCHANGED <<i, last_idx>>
    /\ UNCHANGED <<elevenlabs_segments, response, stage, k, ranges, range,
                   mistakes, inaccuracies, vocabularies, warned,
                   in_batch>>
    /\ UNCHANGED notloc

\* Mutant: the search resumes one character after the match's start.
ErrorWhile_Overlapping ==
    /\ stage \in {"mistakes", "inaccuracies"}
    /\ lpc = "while"
    /\ Len(ranges) < RangeCap
    /\ LET idx == find_substring_range(elevenlabs_segments[i + 1],
                                       response[stage][k + 1].quote, last_idx)
       IN  IF idx = None
           THEN /\ lpc' = "for"
                /\ i' = i + 1
                /\ UNCHANGED <<ranges, last_idx>>
           ELSE /\ ranges' = Append(ranges, <<i, idx[1], idx[2]>>)
                /\ last_idx' = idx[1] + 1
                /\ UNCHANGED <<lpc, i>>
    /\ UNCHANGED <<elevenlabs_segments, response, stage, k, range,
                   mistakes, inaccuracies, vocabularies, warned,
                   in_batch>>
    /\ UNCHANGED notloc

\* One iteration of `while True`: search from last_idx, append the match and
\* resume at its end, or leave the loop.
ErrorWhile ==
    /\ IsErrorStage
    /\ lpc = "while"
    /\ Len(ranges) < RangeCap
    /\ LET idx == find_substring_range(elevenlabs_segments[i + 1],
                                       CurItem.quote, last_idx)
       IN  IF idx = None
           THEN /\ lpc' = "for"
                /\ i' = i + 1
                /\ UNCHANGED <<ranges, last_idx>>
           ELSE /\ ranges' = Append(ranges, <<i, idx[1], idx[2]>>)
                /\ last_idx' = idx[2]
                /\ UNCHANGED <<lpc, i>>
    /\ UNCHANGED <<elevenlabs_segments, response, stage, k, range,
                   mistakes, inaccuracies, vocabularies, warned,
                   in_batch>>
    /\ UNCHANGED notloc

\* Mutant: an item without any range raises instead of giving None.
ErrorReturn_RaiseNotFound ==
    /\ stage \in {"mistakes", "inaccuracies"}
    /\ lpc = "ret"
    /\ lpc' = "raised"
    /\ UNCHANGED <<elevenlabs_segments, response, stage, k, i, last_idx,
                   ranges, range, mistakes, inaccuracies, vocabularies,
                   warned, in_batch>>
    /\ UNCHANGED notloc

\* End of __convert_error_item_to_ranged and the caller's `if ranged_error`:
\* no range gives a warning and None, which the caller skips; otherwise the
\* record is constructed, and a construction error propagates out of
\* __convert_to_ranges.
ErrorReturn ==
    /\ IsErrorStage
    /\ lpc = "ret"
    /\ IF ranges = <<>>
       THEN /\ warned' = Append(warned, CurItem)
            /\ k' = k + 1
            /\ lpc' = "loop"
            /\ UNCHANGED <<stage, mistakes, inaccuracies>>
       ELSE LET ranged_error ==
                    ErrorItemRanged([ranges |-> ranges,
                                     error_type |-> CurItem.error_type,
                                     correction |-> CurItem.correction])
            IN  IF IsError(ranged_error)
                THEN /\ lpc' = "raised"
                     /\ UNCHANGED <<stage, k, mistakes, inaccuracies, warned>>
                ELSE /\ mistakes' = IF stage = "mistakes"
                                    THEN Append(mistakes, ranged_error)
                                    ELSE mistakes
                     /\ inaccuracies' = IF stage = "inaccuracies"
                                        THEN Append(inaccuracies, ranged_error)
                                        ELSE inaccuracies
                     /\ k' = k + 1
                     /\ lpc' = "loop"
                     /\ UNCHANGED <<stage, warned>>
    /\ UNCHANGED <<elevenlabs_segments, response, i, last_idx, ranges, range,
                   vocabularies,
                   in_batch>>
    /\ UNCHANGED notloc

\* Mutant: the for loop goes on after a match (no break).
VocabFor_NoBreak ==
    /\ stage = "vocabularies"
    /\ lpc = "for"
    /\ IF i < Len(elevenlabs_segments)
       THEN IF i % 2 = 1
            THEN /\ i' = i + 1
                 /\ UNCHANGED <<lpc, range>>
            ELSE LET r == find_substring_range(elevenlabs_segments[i + 1],
                                               response[stage][k + 1].quote, 0)
                 IN  /\ range' = IF r # None THEN <<i, r[1], r[2]>> ELSE r
                     /\ i' = i + 1
                     /\ UNCHANGED lpc
       ELSE /\ lpc' = "ret"
            /\ UNCHANGED <<i, range>>
    /\ UNCHANGED <<elevenlabs_segments, response, stage, k, last_idx, ranges,
                   mistakes, inaccuracies, vocabularies, warned,
                   in_batch>>
    /\ UNCHANGED notloc

\* __convert_vocab_item_to_ranged, one pass of the for loop: odd segments
\* are skipped, the first even segment holding the quote ends the loop.
VocabFor ==
    /\ stage = "vocabularies"
    /\ lpc = "for"
    /\ IF i < Len(elevenlabs_segments)
       THEN IF i % 2 = 1
            THEN /\ i' = i + 1
                 /\ UNCHANGED <<lpc, range>>
            ELSE LET r == find_substring_range(elevenlabs_segments[i + 1],
                                               CurItem.quote, 0)
                 IN  IF r # None
                     THEN /\ range' = <<i, r[1], r[2]>>
                          /\ lpc' = "ret"
                          /\ UNCHANGED i
                     ELSE /\ range' = r
                          /\ i' = i + 1
                          /\ UNCHANGED lpc
       ELSE /\ lpc' = "ret"
            /\ UNCHANGED <<i, range>>
    /\ UNCHANGED <<elevenlabs_segments, response, stage, k, last_idx, ranges,
                   mistakes, inaccuracies, vocabularies, warned,
                   in_batch>>
    /\ UNCHANGED notloc

\* End of __convert_vocab_item_to_ranged and the caller's `if ranged_vocab`.
VocabReturn ==
    /\ stage = "vocabularies"
    /\ lpc = "ret"
    /\ IF range = None
       THEN /\ warned' = Append(warned, CurItem)
            /\ k' = k + 1
            /\ lpc' = "loop"
            /\ UNCHANGED <<stage, vocabularies>>
       ELSE LET ranged_vocab ==
                    VocabItemRanged([range |-> range,
                                     synonyms |-> CurItem.synonyms])
            IN  IF IsError(ranged_vocab)
                THEN /\ lpc' = "raised"
                     /\ UNCHANGED <<stage, k, vocabularies, warned>>
                ELSE /\ vocabularies' = Append(vocabularies, ranged_vocab)
                     /\ k' = k + 1
                     /\ lpc' = "loop"
                     /\ UNCHANGED <<stage, warned>>
    /\ UNCHANGED <<elevenlabs_segments, response, i, last_idx, ranges, range,
                   mistakes, inaccuracies,
                   in_batch>>
    /\ UNCHANGED notloc

Next ==
    \/ CallConvert
    \/ NextList
    \/ ErrorFor
    \/ ErrorWhile
    \/ ErrorReturn
    \/ VocabFor
    \/ VocabReturn

----------------------------------------------------------------------------
(* models/elevenlabs.py: speaker-turn segmentation *)

\* Python's None as a speaker_id (speaker ids are strings).
NoSpeaker == "None"

SpeakerIds == {NoSpeaker, "speaker_0", "speaker_1"}

\* Word: text, type, speaker_id (start and end are never read here).  A word
\* token carries a word, a spacing token a blank, an audio_event a tag.
Tokens ==
    [text : {<<"a">>, <<"b">>}, type : {"word"}, speaker_id : SpeakerIds]
        \cup [text : {<<" ">>}, type : {"spacing"}, speaker_id : SpeakerIds]
        \cup [text : {<<"(", ")">>}, type : {"audio_event"},
              speaker_id : SpeakerIds]

\* " ".join(texts)
RECURSIVE Join(_)
Join(texts) ==
    IF texts = <<>> THEN <<>>
    ELSE IF Len(texts) = 1 THEN texts[1]
    ELSE texts[1] \o <<" ">> \o Join(Tail(texts))

IsWord(w) == w.type = "word"

\* [word.text for word in ws if word.type == "word"]
RECURSIVE WordTexts(_)
WordTexts(ws) ==
    IF ws = <<>> THEN <<>>
    ELSE IF IsWord(ws[1]) THEN <<ws[1].text>> \o WordTexts(Tail(ws))
    ELSE WordTexts(Tail(ws))

\* ElevenLabsOutput.extract_text
extract_text == IF text # <<>> THEN text ELSE Join(WordTexts(words))

\* The single segment extract_segments falls back to.
Fallback == <<[speaker_id |-> "speaker_0", content |-> extract_text]>>

\* Mutant: the locals of _extract_speaker_sequences outlive the call.
ExtractSegments_KeepLocals ==
    /\ spc = "start"
    /\ IF words = <<>> \/ \A n \in 1..Len(words) : words[n].speaker_id = NoSpeaker
       THEN /\ segments' = Fallback
            /\ spc' = "done"
            /\ UNCHANGED <<pos, current_sequence, current_speaker, sequences>>
       ELSE /\ spc' = "scan"
            /\ pos' = 0
            /\ UNCHANGED <<segments, current_sequence, current_speaker,
                           sequences>>
    /\ UNCHANGED <<words, text>>
    /\ UNCHANGED <<returned, notseg>>

\* extract_segments up to the call of _extract_speaker_sequences, whose
\* locals start empty.
ExtractSegments ==
    /\ spc = "start"
    /\ IF words = <<>> \/ \A n \in 1..Len(words) : words[n].speaker_id = NoSpeaker
       THEN /\ segments' = Fallback
            /\ spc' = "done"
            /\ UNCHANGED <<pos, current_sequence, current_speaker, sequences>>
       ELSE /\ spc' = "scan"
            /\ pos' = 0
            /\ sequences' = <<>>
            /\ current_sequence' = <<>>
            /\ current_speaker' = NoSpeaker
            /\ UNCHANGED segments
    /\ UNCHANGED <<words, text>>
    /\ UNCHANGED <<returned, notseg>>

\* Mutant: a missing speaker id is not replaced by speaker_0.
ScanToken_NoDefault ==
    /\ spc = "scan"
    /\ pos < Len(words)
    /\ pos' = pos + 1
    /\ LET item == words[pos + 1]
           speaker_id == item.speaker_id
       IN  IF ~IsWord(item)
           THEN UNCHANGED <<current_sequence, current_speaker, sequences>>
           ELSE IF current_speaker = NoSpeaker \/ speaker_id # current_speaker
           THEN /\ sequences' =
                      IF current_sequence # <<>>
                      THEN Append(sequences,
                                  [speaker_id |-> current_speaker,
                                   content |-> Join(current_sequence)])
                      ELSE sequences
                /\ current_sequence' = <<item.text>>
                /\ current_speaker' = speaker_id
           ELSE /\ current_sequence' = Append(current_sequence, item.text)
                /\ UNCHANGED <<current_speaker, sequences>>
    /\ UNCHANGED <<words, text, spc, segments>>
    /\ UNCHANGED <<returned, notseg>>

\* Mutant: the loop runs over every token, whatever its type.
ScanToken_NoFilter ==
    /\ spc = "scan"
    /\ pos < Len(words)
    /\ pos' = pos + 1
    /\ LET item == words[pos + 1]
           speaker_id == IF item.speaker_id = NoSpeaker THEN "speaker_0"
                         ELSE item.speaker_id
       IN  IF current_speaker = NoSpeaker \/ speaker_id # current_speaker
           THEN /\ sequences' =
                      IF current_sequence # <<>>
                      THEN Append(sequences,
                                  [speaker_id |-> current_speaker,
                                   content |-> Join(current_sequence)])
                      ELSE sequences
                /\ current_sequence' = <<item.text>>
                /\ current_speaker' = speaker_id
           ELSE /\ current_sequence' = Append(current_sequence, item.text)
                /\ UNCHANGED <<current_speaker, sequences>>
    /\ UNCHANGED <<words, text, spc, segments>>
    /\ UNCHANGED <<returned, notseg>>

\* One pass of the for loop of _extract_speaker_sequences over the word-type
\* tokens; a token of another type is filtered out.
ScanToken ==
    /\ spc = "scan"
    /\ pos < Len(words)
    /\ pos' = pos + 1
    /\ LET item == words[pos + 1]
           speaker_id == IF item.speaker_id = NoSpeaker THEN "speaker_0"
                         ELSE item.speaker_id
       IN  IF ~IsWord(item)
           THEN UNCHANGED <<current_sequence, current_speaker, sequences>>
           ELSE IF current_speaker = NoSpeaker \/ speaker_id # current_speaker
           THEN /\ sequences' =
                      IF current_sequence # <<>>
                      THEN Append(sequences,
                                  [speaker_id |-> current_speaker,
                                   content |-> Join(current_sequence)])
                      ELSE sequences
                /\ current_sequence' = <<item.text>>
                /\ current_speaker' = speaker_id
           ELSE /\ current_sequence' = Append(current_sequence, item.text)
                /\ UNCHANGED <<current_speaker, sequences>>
    /\ UNCHANGED <<words, text, spc, segments>>
    /\ UNCHANGED <<returned, notseg>>

\* End of the for loop: the last run is added and the list returned;
\* extract_segments falls back to the full text if the list is empty.
ScanEnd ==
    /\ spc = "scan"
    /\ pos = Len(words)
    /\ sequences' =
          IF current_sequence # <<>>
          THEN Append(sequences, [speaker_id |-> current_speaker,
                                  content |-> Join(current_sequence)])
          ELSE sequences
    /\ segments' = IF sequences' = <<>> THEN Fallback ELSE sequences'
    /\ spc' = "done"
    /\ UNCHANGED <<words, text, pos, current_sequence, current_speaker>>
    /\ UNCHANGED <<returned, notseg>>

NextSeg ==
    \/ ExtractSegments
    \/ ScanToken
    \/ ScanEnd

\* extract_segments is called once more on the same ElevenLabsOutput; what
\* the call before returned is kept for comparison.
CallAgain ==
    /\ spc = "done"
    /\ Len(returned) + 1 < MaxCalls
    /\ returned' = Append(returned, segments)
    /\ spc' = "start"
    /\ UNCHANGED <<words, text, pos, current_sequence, current_speaker,
                   sequences, segments>>
    /\ UNCHANGED notseg

NextRepeat ==
    \/ NextSeg
    \/ CallAgain

----------------------------------------------------------------------------
(* Phoneme aligner (spec 4.3) *)

\* The flat reference: the per-word sequences concatenated, no separator.
RECURSIVE Flat(_)
Flat(ws) == IF ws = <<>> THEN <<>> ELSE ws[1] \o Flat(Tail(ws))

MaxOf(x, y) == IF x >= y THEN x ELSE y

\* Mutant: the table adds one without testing that the symbols match.
LCSTable_NoMatchTest(hyp, ref) ==
    LET tab[ii \in 0..Len(hyp), jj \in 0..Len(ref)] ==
            IF ii = 0 \/ jj = 0 THEN 0
            ELSE tab[ii - 1, jj - 1] + 1
    IN  tab

\* The table of the LCS: 0 for an empty prefix, the diagonal plus one where
\* the symbols match, else the larger of the two neighbours.
LCSTable(hyp, ref) ==
    LET tab[ii \in 0..Len(hyp), jj \in 0..Len(ref)] ==
            IF ii = 0 \/ jj = 0 THEN 0
            ELSE IF hyp[ii] = ref[jj] THEN tab[ii - 1, jj - 1] + 1
            ELSE MaxOf(tab[ii - 1, jj], tab[ii, jj - 1])
    IN  tab

BuildTable ==
    /\ apc = "table"
    /\ table' = LCSTable(hypothesis, Flat(reference_words))
    /\ back_i' = Len(hypothesis)
    /\ back_j' = Len(Flat(reference_words))
    /\ lcs' = <<>>
    /\ apc' = "back"
    /\ UNCHANGED <<hypothesis, reference_words, word_idx, sym_idx,
                   hyp_cursor, lcs_cursor, recognizedChunk, pairs>>
    /\ UNCHANGED notaln

\* One step of the walk back from table[m][n]: a match is taken, and on a
\* tie the walk steps in the hypothesis.
BackStep ==
    /\ apc = "back"
    /\ back_i > 0
    /\ back_j > 0
    /\ IF hypothesis[back_i] = Flat(reference_words)[back_j]
       THEN /\ lcs' = <<hypothesis[back_i]>> \o lcs
            /\ back_i' = back_i - 1
            /\ back_j' = back_j - 1
       ELSE IF table[back_i - 1, back_j] >= table[back_i, back_j - 1]
       THEN /\ back_i' = back_i - 1
            /\ UNCHANGED <<back_j, lcs>>
       ELSE /\ back_j' = back_j - 1
            /\ UNCHANGED <<back_i, lcs>>
    /\ UNCHANGED <<hypothesis, reference_words, apc, table, word_idx,
                   sym_idx, hyp_cursor, lcs_cursor, recognizedChunk, pairs>>
    /\ UNCHANGED notaln

\* The walk back is over; the forward walk starts at the first word.
BackEnd ==
    /\ apc = "back"
    /\ back_i = 0 \/ back_j = 0
    /\ apc' = "walk"
    /\ word_idx' = 0
    /\ sym_idx' = 0
    /\ hyp_cursor' = 0
    /\ lcs_cursor' = 0
    /\ recognizedChunk' = <<>>
    /\ pairs' = <<>>
    /\ UNCHANGED <<hypothesis, reference_words, table, back_i, back_j, lcs>>
    /\ UNCHANGED notaln

\* The hypothesis positions (0-based) from the cursor on that hold sym.
NextMatch(sym) ==
    {p \in hyp_cursor..(Len(hypothesis) - 1) : hypothesis[p + 1] = sym}

\* Mutant: the matching hypothesis symbol itself is not added to the chunk.
WalkSymbol_SkipMatch ==
    /\ apc = "walk"
    /\ word_idx < Len(reference_words)
    /\ sym_idx < Len(reference_words[word_idx + 1])
    /\ LET sym == reference_words[word_idx + 1][sym_idx + 1]
       IN  IF lcs_cursor < Len(lcs) /\ sym = lcs[lcs_cursor + 1]
           THEN IF NextMatch(sym) = {}
                THEN /\ apc' = "failed"
                     /\ pairs' = <<>>
                     /\ UNCHANGED <<sym_idx, hyp_cursor, lcs_cursor,
                                    recognizedChunk>>
                ELSE /\ recognizedChunk' =
                            recognizedChunk
                                \o Slice(hypothesis, hyp_cursor,
                                         Min(NextMatch(sym)))
                     /\ hyp_cursor' = Min(NextMatch(sym)) + 1
                     /\ lcs_cursor' = lcs_cursor + 1
                     /\ sym_idx' = sym_idx + 1
                     /\ UNCHANGED <<apc, pairs>>
           ELSE /\ sym_idx' = sym_idx + 1
                /\ UNCHANGED <<apc, hyp_cursor, lcs_cursor, recognizedChunk,
                               pairs>>
    /\ UNCHANGED <<hypothesis, reference_words, table, back_i, back_j, lcs,
                   word_idx>>
    /\ UNCHANGED notaln

\* One symbol of the word under way.  If it is the next LCS symbol, the
\* hypothesis symbols skipped before the next occurrence of it go to the
\* word's recognized chunk and then the matching symbol itself; a cursor
\* that runs past the end of the hypothesis fails the call.
WalkSymbol ==
    /\ apc = "walk"
    /\ word_idx < Len(reference_words)
    /\ sym_idx < Len(reference_words[word_idx + 1])
    /\ LET sym == reference_words[word_idx + 1][sym_idx + 1]
       IN  IF lcs_cursor < Len(lcs) /\ sym = lcs[lcs_cursor + 1]
           THEN IF NextMatch(sym) = {}
                THEN /\ apc' = "failed"
                     /\ pairs' = <<>>
                     /\ UNCHANGED <<sym_idx, hyp_cursor, lcs_cursor,
                                    recognizedChunk>>
                ELSE /\ recognizedChunk' =
                            recognizedChunk
                                \o Slice(hypothesis, hyp_cursor,
                                         Min(NextMatch(sym)) + 1)
                     /\ hyp_cursor' = Min(NextMatch(sym)) + 1
                     /\ lcs_cursor' = lcs_cursor + 1
                     /\ sym_idx' = sym_idx + 1
                     /\ UNCHANGED <<apc, pairs>>
           ELSE /\ sym_idx' = sym_idx + 1
                /\ UNCHANGED <<apc, hyp_cursor, lcs_cursor, recognizedChunk,
                               pairs>>
    /\ UNCHANGED <<hypothesis, reference_words, table, back_i, back_j, lcs,
                   word_idx>>
    /\ UNCHANGED notaln

\* Mutant: a word with an empty recognized chunk gets no pair.
WalkWordEnd_DropEmpty ==
    /\ apc = "walk"
    /\ word_idx < Len(reference_words)
    /\ sym_idx = Len(reference_words[word_idx + 1])
    /\ pairs' = IF recognizedChunk = <<>> THEN pairs
                ELSE Append(pairs, <<recognizedChunk,
                                     reference_words[word_idx + 1]>>)
    /\ word_idx' = word_idx + 1
    /\ sym_idx' = 0
    /\ recognizedChunk' = <<>>
    /\ UNCHANGED <<hypothesis, reference_words, apc, table, back_i, back_j,
                   lcs, hyp_cursor, lcs_cursor>>
    /\ UNCHANGED notaln

\* The word is done: its pair (recognizedChunk, referenceChunk) is added.
WalkWordEnd ==
    /\ apc = "walk"
    /\ word_idx < Len(reference_words)
    /\ sym_idx = Len(reference_words[word_idx + 1])
    /\ pairs' = Append(pairs, <<recognizedChunk,
                                reference_words[word_idx + 1]>>)
    /\ word_idx' = word_idx + 1
    /\ sym_idx' = 0
    /\ recognizedChunk' = <<>>
    /\ UNCHANGED <<hypothesis, reference_words, apc, table, back_i, back_j,
                   lcs, hyp_cursor, lcs_cursor>>
    /\ UNCHANGED notaln

\* All words are done: the pair list is returned.
WalkEnd ==
    /\ apc = "walk"
    /\ word_idx = Len(reference_words)
    /\ apc' = "done"
    /\ UNCHANGED <<hypothesis, reference_words, table, back_i, back_j, lcs,
                   word_idx, sym_idx, hyp_cursor, lcs_cursor,
                   recognizedChunk, pairs>>
    /\ UNCHANGED notaln

NextAlign ==
    \/ BuildTable
    \/ BackStep
    \/ BackEnd
    \/ WalkSymbol
    \/ WalkWordEnd
    \/ WalkEnd

----------------------------------------------------------------------------
(* Inputs *)

QuoteLists(quotes, n) == UNION {[1..m -> quotes] : m \in 0..n}

EvaluationResponse(qm, qi, qv) ==
    [mistakes |-> [n \in 1..Len(qm) |-> ErrorItem(qm[n], n)],
     inaccuracies |-> [n \in 1..Len(qi) |-> ErrorItem(qi[n], n)],
     vocabularies |-> [n \in 1..Len(qv) |-> VocabItem(qv[n], n)]]

\* Responses of at most n items in all, with quotes from `quotes`: a quote
\* list cut in three.
Responses(quotes, n) ==
    {EvaluationResponse(Slice(q[1], 0, q[2]), Slice(q[1], q[2], q[3]),
                        Slice(q[1], q[3], Len(q[1]))) :
        q \in {t \in QuoteLists(quotes, n) \X (0..n) \X (0..n) :
                  t[2] <= t[3] /\ t[3] <= Len(t[1])}}

InitLocals ==
    /\ stage = "mistakes"
    /\ k = 0
    /\ lpc = "loop"
    /\ i = 0
    /\ last_idx = 0
    /\ ranges = <<>>
    /\ range = None
    /\ mistakes = <<>>
    /\ inaccuracies = <<>>
    /\ vocabularies = <<>>
    /\ warned = <<>>
    /\ in_batch = None

SegLocals ==
    /\ spc = "start"
    /\ pos = 0
    /\ current_sequence = <<>>
    /\ current_speaker = NoSpeaker
    /\ sequences = <<>>
    /\ segments = <<>>
    /\ returned = <<>>

AlignLocals ==
    /\ apc = "table"
    /\ table = <<>>
    /\ back_i = 0
    /\ back_j = 0
    /\ lcs = <<>>
    /\ word_idx = 0
    /\ sym_idx = 0
    /\ hyp_cursor = 0
    /\ lcs_cursor = 0
    /\ recognizedChunk = <<>>
    /\ pairs = <<>>

\* No phoneme input: the aligner variables of the other runs.
AlignIdle ==
    /\ hypothesis = <<>>
    /\ reference_words = <<>>
    /\ AlignLocals

\* No upload yet.
JobIdle ==
    /\ active_processes = <<>>
    /\ runs = <<>>
    /\ polled = None
    /\ client_pc = "poll"
    /\ files = {}
    /\ reply = None

\* No transcript: the segmentation variables of a locator run.
SegIdle ==
    /\ words = <<>>
    /\ text = <<>>
    /\ SegLocals

\* No locator input: the locator variables of a segmentation run.
LocIdle ==
    /\ elevenlabs_segments = <<>>
    /\ response = EvaluationResponse(<<>>, <<>>, <<>>)
    /\ InitLocals

\* One conversion: a response holding a single item.
Init ==
    /\ elevenlabs_segments \in SegLists(MaxSegs, MaxChars)
    /\ response \in {r \in Responses(Strs(MaxQuoteLen), 1) :
                        Len(r.mistakes) + Len(r.inaccuracies)
                            + Len(r.vocabularies) = 1}
    /\ InitLocals
    /\ SegIdle
    /\ AlignIdle
    /\ JobIdle

Spec == Init /\ [][Next]_vars

\* A batch of up to MaxItems items.
BatchInit ==
    /\ elevenlabs_segments \in SegLists(BatchMaxSegs, BatchMaxChars)
    /\ response \in Responses(BatchQuotes, MaxItems)
    /\ InitLocals
    /\ SegIdle
    /\ AlignIdle
    /\ JobIdle

SpecBatch == BatchInit /\ [][Next]_vars

\* A separate call of __convert_to_ranges on the item whose scan has just
\* ended, alone in its list; what the scan located inside the batch is
\* kept, with the number of items the batch had dropped before it.
IsolatedCall ==
    /\ in_batch = None
    /\ stage \in {"mistakes", "inaccuracies", "vocabularies"}
    /\ lpc = "ret"
    /\ in_batch' = <<stage, CurItem.quote, ranges, range, Len(warned)>>
    /\ response' =
          EvaluationResponse(
              IF stage = "mistakes" THEN <<CurItem.quote>> ELSE <<>>,
              IF stage = "inaccuracies" THEN <<CurItem.quote>> ELSE <<>>,
              IF stage = "vocabularies" THEN <<CurItem.quote>> ELSE <<>>)
    /\ stage' = "mistakes"
    /\ k' = 0
    /\ lpc' = "loop"
    /\ i' = 0
    /\ last_idx' = 0
    /\ ranges' = <<>>
    /\ range' = None
    /\ mistakes' = <<>>
    /\ inaccuracies' = <<>>
    /\ vocabularies' = <<>>
    /\ warned' = <<>>
    /\ UNCHANGED elevenlabs_segments
    /\ UNCHANGED notloc

NextIndep ==
    \/ Next
    \/ IsolatedCall

\* A batch, and after one of its scans the same item converted alone.
SpecIndep == BatchInit /\ [][NextIndep]_vars

\* "".join(w.text for w in ws): the transcript text of the tokens.
RECURSIVE Concat(_)
Concat(ws) == IF ws = <<>> THEN <<>> ELSE ws[1].text \o Concat(Tail(ws))

\* The text of the service's mock response, which has no words.
MockText == <<"a", " ", "b">>

\* A transcript of at most MaxWords tokens; its text is that of its tokens,
\* or empty, or the mock response's.
SegInit ==
    /\ words \in UNION {[1..m -> Tokens] : m \in 0..MaxWords}
    /\ text \in {<<>>, Concat(words)}
                \cup (IF words = <<>> THEN {MockText} ELSE {})
    /\ SegLocals
    /\ LocIdle
    /\ AlignIdle
    /\ JobIdle

SpecSeg == SegInit /\ [][NextSeg]_vars

\* A hypothesis of at most MaxHyp phonemes and at most MaxRefWords
\* reference words of at most MaxRefLen phonemes in all.
AlignInit ==
    /\ hypothesis \in Strs(MaxHyp)
    /\ reference_words \in SegLists(MaxRefWords, MaxRefLen)
    /\ AlignLocals
    /\ LocIdle
    /\ SegIdle
    /\ JobIdle

SpecAlign == AlignInit /\ [][NextAlign]_vars

\* The same transcript segmented up to MaxCalls times.
SpecRepeat == SegInit /\ [][NextRepeat]_vars

----------------------------------------------------------------------------
(* main.py: the registry, the pipeline run and the status API *)

\* ProcessInfo(id, status, created_at, updated_at): result and error start
\* as None.  A result that is set refers to the partial_results dict of the
\* run that set it, <<r>> for run r.
ProcessInfo(status) == [status |-> status, result |-> None, error |-> None]

\* The dict a record's result refers to.
ResultOf(process_info) ==
    IF process_info.result = None THEN None
    ELSE runs[process_info.result[1]].partial_results

\* No call is inside synchronous code: process_wav_file gives up the event
\* loop only at its awaits, and extract_segments has none.
Awaiting == spc = "idle"

\* The file names of the uploads.
Filenames == {<<"a", ".", "w", "a", "v">>, <<"a", ".", "m", "p", "3">>}

\* str.endswith
endswith(str, suffix) ==
    /\ Len(suffix) <= Len(str)
    /\ Slice(str, Len(str) - Len(suffix), Len(str)) = suffix

\* An answer with an HTTP status code; 400 and 404 are HTTPException.
Answer(endpoint, code) == <<endpoint, code>>

\* A call of process_wav_file added to the background tasks.
Task(process_id) ==
    [process_id |-> process_id, pc |-> "queued", partial_results |-> <<>>]

\* Mutant: the upload also adds process_wav_file as a background task.
upload_file_Scheduling(filename) ==
    /\ Awaiting
    /\ IF ~endswith(filename, <<".", "w", "a", "v">>)
       THEN /\ reply' = Answer("upload", 400)
            /\ UNCHANGED <<active_processes, files, runs>>
       ELSE /\ files' = files \cup {Len(active_processes) + 1}
            /\ active_processes' =
                  Append(active_processes, ProcessInfo("uploaded"))
            /\ runs' = Append(runs, Task(Len(active_processes) + 1))
            /\ reply' = Answer("upload", 200)
    /\ UNCHANGED <<polled, client_pc>>
    /\ UNCHANGED <<segvars, notjob>>

\* Mutant: the file name is not tested.
upload_file_AnyName(filename) ==
    /\ Awaiting
    /\ files' = files \cup {Len(active_processes) + 1}
    /\ active_processes' = Append(active_processes, ProcessInfo("uploaded"))
    /\ reply' = Answer("upload", 200)
    /\ UNCHANGED <<runs, polled, client_pc>>
    /\ UNCHANGED <<segvars, notjob>>

\* POST /upload: 400 for a file name that does not end in .wav; otherwise
\* the file is saved as temp_{id}.wav under a new id, the record is
\* registered as uploaded and nothing is scheduled.
upload_file(filename) ==
    /\ Awaiting
    /\ IF ~endswith(filename, <<".", "w", "a", "v">>)
       THEN /\ reply' = Answer("upload", 400)
            /\ UNCHANGED <<active_processes, files>>
       ELSE /\ files' = files \cup {Len(active_processes) + 1}
            /\ active_processes' =
                  Append(active_processes, ProcessInfo("uploaded"))
            /\ reply' = Answer("upload", 200)
    /\ UNCHANGED <<runs, polled, client_pc>>
    /\ UNCHANGED <<segvars, notjob>>

\* POST /start-processing/{process_id}: 404 for an id that is not in the
\* registry or whose temp file is missing; otherwise the record becomes
\* pending, whatever its status was, and process_wav_file is added as a
\* background task.
start_processing(process_id) ==
    /\ Awaiting
    /\ IF process_id \notin 1..Len(active_processes)
          \/ process_id \notin files
       THEN /\ reply' = Answer("start-processing", 404)
            /\ UNCHANGED <<active_processes, runs>>
       ELSE /\ active_processes' =
                  [active_processes EXCEPT ![process_id].status = "pending"]
            /\ runs' = Append(runs, Task(process_id))
            /\ reply' = Answer("start-processing", 200)
    /\ UNCHANGED <<polled, client_pc, files>>
    /\ UNCHANGED <<segvars, notjob>>

\* POST /reprocess/{process_id}: 404 for an id that is not in the registry
\* or whose temp file is missing; otherwise the file is copied to
\* temp_{new id}.wav, a pending record is registered under the new id and
\* process_wav_file is added as a background task for it.
reprocess_audio(process_id) ==
    /\ Awaiting
    /\ IF process_id \notin 1..Len(active_processes)
          \/ process_id \notin files
       THEN /\ reply' = Answer("reprocess", 404)
            /\ UNCHANGED <<active_processes, runs, files>>
       ELSE LET new_process_id == Len(active_processes) + 1
            IN  /\ files' = files \cup {new_process_id}
                /\ active_processes' =
                      Append(active_processes, ProcessInfo("pending"))
                /\ runs' = Append(runs, Task(new_process_id))
                /\ reply' = Answer("reprocess", 200)
    /\ UNCHANGED <<polled, client_pc>>
    /\ UNCHANGED <<segvars, notjob>>

\* POST /use-sample: 404 if sample.wav is missing; otherwise a pending
\* record is registered under a new id and process_wav_file is added as a
\* background task on sample.wav itself: no temp file is written.
use_sample(exists) ==
    /\ Awaiting
    /\ IF ~exists
       THEN /\ reply' = Answer("use-sample", 404)
            /\ UNCHANGED <<active_processes, runs>>
       ELSE /\ active_processes' =
                  Append(active_processes, ProcessInfo("pending"))
            /\ runs' = Append(runs, Task(Len(active_processes) + 1))
            /\ reply' = Answer("use-sample", 200)
    /\ UNCHANGED <<polled, client_pc, files>>
    /\ UNCHANGED <<segvars, notjob>>

\* process_wav_file starts: ELEVENLABS_PROCESSING, then it awaits
\* speech_to_text.
RunStart(r) ==
    /\ Awaiting
    /\ runs[r].pc = "queued"
    /\ active_processes' =
          [active_processes EXCEPT
              ![runs[r].process_id].status = "elevenlabs_processing"]
    /\ runs' = [runs EXCEPT ![r].pc = "stt"]
    /\ UNCHANGED <<polled, client_pc, files, reply>>
    /\ UNCHANGED <<segvars, notjob>>

\* Mutant: no outer handler, the error ends the task and the record is left
\* as it was.
STTRaise_Unhandled(r) ==
    /\ Awaiting
    /\ runs[r].pc = "stt"
    /\ runs' = [runs EXCEPT ![r].pc = "end"]
    /\ UNCHANGED <<active_processes, polled, client_pc, files, reply>>
    /\ UNCHANGED <<segvars, notjob>>

\* speech_to_text raises: the error is raised again and the outer handler
\* marks the record FAILED.
STTRaise(r) ==
    /\ Awaiting
    /\ runs[r].pc = "stt"
    /\ active_processes' =
          [active_processes EXCEPT
              ![runs[r].process_id].status = "failed",
              ![runs[r].process_id].error =
                  <<"Speech-to-text processing failed">>]
    /\ runs' = [runs EXCEPT ![r].pc = "end"]
    /\ UNCHANGED <<polled, client_pc, files, reply>>
    /\ UNCHANGED <<segvars, notjob>>

\* The transcripts of at most n tokens: the text is that of the tokens, or
\* empty, or the mock response's.
Transcripts(n) ==
    UNION {{<<ws, t>> : t \in {<<>>, Concat(ws)}
                            \cup (IF ws = <<>> THEN {MockText} ELSE {})} :
              ws \in UNION {[1..m -> Tokens] : m \in 0..n}}

\* speech_to_text returns one of the transcripts and extract_segments is
\* called.
STTReturnOf(r, transcripts) ==
    /\ Awaiting
    /\ runs[r].pc = "stt"
    /\ \E tr \in transcripts :
          /\ words' = tr[1]
          /\ text' = tr[2]
    /\ spc' = "start"
    /\ runs' = [runs EXCEPT ![r].pc = "extract_segments"]
    /\ UNCHANGED <<pos, current_sequence, current_speaker, sequences,
                   segments, returned>>
    /\ UNCHANGED <<active_processes, polled, client_pc, files, reply>>
    /\ UNCHANGED notjob

STTReturn(r) == STTReturnOf(r, Transcripts(JobMaxWords))

\* Mutant: the record's result is not set after the segmentation.
Segmented_NoResult(r) ==
    /\ spc = "done"
    /\ runs[r].pc = "extract_segments"
    /\ runs' = [runs EXCEPT
                  ![r].partial_results =
                      ("elevenlabs" :> segments) @@ runs[r].partial_results,
                  ![r].pc = "allosaurus"]
    /\ active_processes' =
          [active_processes EXCEPT
              ![runs[r].process_id].status = "elevenlabs_complete"]
    /\ spc' = "idle"
    /\ UNCHANGED <<words, text, pos, current_sequence, current_speaker,
                   sequences, segments, returned>>
    /\ UNCHANGED <<polled, client_pc, files, reply>>
    /\ UNCHANGED notjob

\* extract_segments has returned: the segments (dicts, kept as they are)
\* become partial_results["elevenlabs"], the record is ELEVENLABS_COMPLETE
\* with result set to partial_results, and recognize_phonemes is awaited.
Segmented(r) ==
    /\ spc = "done"
    /\ runs[r].pc = "extract_segments"
    /\ runs' = [runs EXCEPT
                  ![r].partial_results =
                      ("elevenlabs" :> segments) @@ runs[r].partial_results,
                  ![r].pc = "allosaurus"]
    /\ active_processes' =
          [active_processes EXCEPT
              ![runs[r].process_id].status = "elevenlabs_complete",
              ![runs[r].process_id].result = <<r>>]
    /\ spc' = "idle"
    /\ UNCHANGED <<words, text, pos, current_sequence, current_speaker,
                   sequences, segments, returned>>
    /\ UNCHANGED <<polled, client_pc, files, reply>>
    /\ UNCHANGED notjob

\* The parameters of LanguageFeedbackService.process_transcript besides self.
Parameters == {"transcript", "elevenlabs_segments"}

\* The keyword arguments process_wav_file passes to it.
Keywords == {"include_phonetics", "phonetics_data"}

\* Python binds the arguments before the body runs: TypeError for a keyword
\* that is no parameter.
TypeError == ~(Keywords \subseteq Parameters)

\* What the handler of the language-feedback step stores.
MistralFailed ==
    ("mistral" :> [mistakes |-> <<>>, inaccuracies |-> <<>>,
                   vocabularies |-> <<>>])
        @@ ("summary" :> "Could not generate summary due to an error.")

\* Mutant: an error of recognize_phonemes is not caught by the step's own
\* handler and the outer handler marks the record FAILED.
AllosaurusDone_Uncaught(r, ok) ==
    /\ Awaiting
    /\ runs[r].pc = "allosaurus"
    /\ LET allosaurus == "phonemes"
           partial_results == ("allosaurus" :> allosaurus)
                                  @@ runs[r].partial_results
       IN  IF ok
           THEN /\ runs' = [runs EXCEPT
                              ![r].partial_results =
                                  MistralFailed @@ partial_results,
                              ![r].pc = "end"]
                /\ active_processes' =
                      [active_processes EXCEPT
                          ![runs[r].process_id].status = "complete",
                          ![runs[r].process_id].result = <<r>>]
           ELSE /\ runs' = [runs EXCEPT ![r].pc = "end"]
                /\ active_processes' =
                      [active_processes EXCEPT
                          ![runs[r].process_id].status = "failed",
                          ![runs[r].process_id].error =
                              <<"Phoneme recognition failed">>]
    /\ UNCHANGED <<polled, client_pc, files, reply>>
    /\ UNCHANGED <<segvars, notjob>>

\* recognize_phonemes returns (ok) or raises, and the run goes on without
\* an await: the phonemes or the error entry are stored, the status passes
\* through ALLOSAURUS_PROCESSING (if ok) and MISTRAL_PROCESSING, the call of
\* process_transcript raises TypeError, its handler stores the empty
\* feedback, and the record is COMPLETE with result set to partial_results.
\* (Were the call to bind, the run would await process_transcript.)
AllosaurusDone(r, ok) ==
    /\ Awaiting
    /\ runs[r].pc = "allosaurus"
    /\ LET allosaurus == IF ok THEN "phonemes" ELSE "error"
           partial_results == ("allosaurus" :> allosaurus)
                                  @@ runs[r].partial_results
       IN  IF TypeError
           THEN /\ runs' = [runs EXCEPT
                              ![r].partial_results =
                                  MistralFailed @@ partial_results,
                              ![r].pc = "end"]
                /\ active_processes' =
                      [active_processes EXCEPT
                          ![runs[r].process_id].status = "complete",
                          ![runs[r].process_id].result = <<r>>]
           ELSE /\ runs' = [runs EXCEPT
                              ![r].partial_results = partial_results,
                              ![r].pc = "process_transcript"]
                /\ active_processes' =
                      [active_processes EXCEPT
                          ![runs[r].process_id].status =
                              "mistral_processing",
                          ![runs[r].process_id].result =
                              IF ok THEN <<r>> ELSE @]
    /\ UNCHANGED <<polled, client_pc, files, reply>>
    /\ UNCHANGED <<segvars, notjob>>

\* GET /status/{process_id}: the record as a dict (every value the run
\* stores is JSON serializable).
check_status(process_id) ==
    LET process_info == active_processes[process_id]
    IN  [id |-> process_id,
         status |-> process_info.status,
         result |-> ResultOf(process_info),
         error |-> process_info.error]

\* The polling loop of test_evaluation.py, for the first upload: GET
\* /status, then sleep and test the status.
Poll ==
    /\ Awaiting
    /\ client_pc = "poll"
    /\ Len(active_processes) >= 1
    /\ polled' = <<check_status(1)>>
    /\ client_pc' = "sleep"
    /\ UNCHANGED <<active_processes, runs, files, reply>>
    /\ UNCHANGED <<segvars, notjob>>

\* while not status_code == "completed"
Sleep ==
    /\ client_pc = "sleep"
    /\ client_pc' = IF polled[1].status = "completed" THEN "exit"
                    ELSE "poll"
    /\ UNCHANGED <<active_processes, runs, polled, files, reply>>
    /\ UNCHANGED <<segvars, notjob>>

\* GET /status/{process_id} as a request of its own: 404 for an id that is
\* not in the registry, otherwise check_status(process_id) is the body.
GetStatus(process_id) ==
    /\ Awaiting
    /\ reply' = Answer("status", IF process_id \in 1..Len(active_processes)
                                 THEN 200 ELSE 404)
    /\ UNCHANGED <<active_processes, runs, polled, client_pc, files>>
    /\ UNCHANGED <<segvars, notjob>>

RunStep ==
    \E r \in 1..Len(runs) :
        \/ RunStart(r)
        \/ STTRaise(r)
        \/ STTReturn(r)
        \/ Segmented(r)
        \/ \E ok \in BOOLEAN : AllosaurusDone(r, ok)

\* The uploads and starts of the polling client's scenario.
Upload ==
    /\ Len(active_processes) < MaxProcs
    /\ \E filename \in Filenames : upload_file(filename)

Start ==
    /\ Len(runs) < MaxRuns
    /\ \E process_id \in 1..MaxProcs : start_processing(process_id)

NextJob ==
    \/ Upload
    \/ Start
    \/ \E r \in 1..Len(runs) : RunStart(r)
    \/ \E r \in 1..Len(runs) : STTRaise(r)
    \/ \E r \in 1..Len(runs) : STTReturn(r)
    \/ ExtractSegments
    \/ ScanToken
    \/ ScanEnd
    \/ \E r \in 1..Len(runs) : Segmented(r)
    \/ \E r \in 1..Len(runs) : \E ok \in BOOLEAN : AllosaurusDone(r, ok)
    \/ Poll
    \/ Sleep

\* The quotes of the language-feedback model's answers.
JobQuotes == {<<"a">>, <<"b">>}

\* An empty registry; response is what the language-feedback model answers
\* when it is asked about the transcript.
JobInit ==
    /\ JobIdle
    /\ elevenlabs_segments = <<>>
    /\ response \in Responses(JobQuotes, 1)
    /\ InitLocals
    /\ words = <<>>
    /\ text = <<>>
    /\ spc = "idle"
    /\ pos = 0
    /\ current_sequence = <<>>
    /\ current_speaker = NoSpeaker
    /\ sequences = <<>>
    /\ segments = <<>>
    /\ returned = <<>>
    /\ AlignIdle

SpecJob == JobInit /\ [][NextJob]_vars

\* Every scheduled run, every request and the polling client keep going.
FairSpecJob ==
    /\ SpecJob
    /\ WF_vars(Upload)
    /\ WF_vars(Start)
    /\ WF_vars(RunStep)
    /\ WF_vars(NextSeg)
    /\ WF_vars(Poll)
    /\ WF_vars(Sleep)

\* The requests of any client, in any order and between any two steps of
\* the runs: the ids asked for are those of the registry and one beyond.
ProcessIds == 1..(ApiMaxProcs + 1)

\* What speech_to_text returns here: a transcript of two speakers with a
\* spacing token between their words.
ApiTranscripts ==
    {<<<<[text |-> <<"a">>, type |-> "word", speaker_id |-> "speaker_0"],
         [text |-> <<" ">>, type |-> "spacing", speaker_id |-> NoSpeaker],
         [text |-> <<"b">>, type |-> "word", speaker_id |-> "speaker_1"]>>,
       <<"a", " ", "b">>>>}

ApiUpload ==
    /\ Len(active_processes) < ApiMaxProcs
    /\ \E filename \in Filenames : upload_file(filename)

ApiStart(max_runs) ==
    /\ Len(runs) < max_runs
    /\ \E process_id \in ProcessIds : start_processing(process_id)

ApiReprocess(max_runs) ==
    /\ Len(active_processes) < ApiMaxProcs
    /\ Len(runs) < max_runs
    /\ \E process_id \in ProcessIds : reprocess_audio(process_id)

ApiUseSample(max_runs) ==
    /\ Len(active_processes) < ApiMaxProcs
    /\ Len(runs) < max_runs
    /\ \E exists \in BOOLEAN : use_sample(exists)

ApiRunStep ==
    \E r \in 1..Len(runs) :
        \/ RunStart(r)
        \/ STTRaise(r)
        \/ STTReturnOf(r, ApiTranscripts)
        \/ Segmented(r)
        \/ \E ok \in BOOLEAN : AllosaurusDone(r, ok)

NextApi ==
    \/ ApiUpload
    \/ ApiStart(ApiMaxRuns)
    \/ ApiReprocess(ApiMaxRuns)
    \/ ApiUseSample(ApiMaxRuns)
    \/ \E process_id \in ProcessIds : GetStatus(process_id)
    \/ \E r \in 1..Len(runs) : RunStart(r)
    \/ \E r \in 1..Len(runs) : STTRaise(r)
    \/ \E r \in 1..Len(runs) : STTReturnOf(r, ApiTranscripts)
    \/ ExtractSegments
    \/ ScanToken
    \/ ScanEnd
    \/ \E r \in 1..Len(runs) : Segmented(r)
    \/ \E r \in 1..Len(runs) : \E ok \in BOOLEAN : AllosaurusDone(r, ok)

\* The same with fewer runs, for the properties of infinite behaviours.
NextLive ==
    \/ ApiUpload
    \/ ApiStart(LiveMaxRuns)
    \/ ApiReprocess(LiveMaxRuns)
    \/ ApiUseSample(LiveMaxRuns)
    \/ \E process_id \in ProcessIds : GetStatus(process_id)
    \/ \E r \in 1..Len(runs) : RunStart(r)
    \/ \E r \in 1..Len(runs) : STTRaise(r)
    \/ \E r \in 1..Len(runs) : STTReturnOf(r, ApiTranscripts)
    \/ ExtractSegments
    \/ ScanToken
    \/ ScanEnd
    \/ \E r \in 1..Len(runs) : Segmented(r)
    \/ \E r \in 1..Len(runs) : \E ok \in BOOLEAN : AllosaurusDone(r, ok)

\* An empty registry and no answer of the language-feedback model.
ApiInit ==
    /\ JobIdle
    /\ LocIdle
    /\ words = <<>>
    /\ text = <<>>
    /\ spc = "idle"
    /\ pos = 0
    /\ current_sequence = <<>>
    /\ current_speaker = NoSpeaker
    /\ sequences = <<>>
    /\ segments = <<>>
    /\ returned = <<>>
    /\ AlignIdle

SpecApi == ApiInit /\ [][NextApi]_vars

\* Every external service call returns or raises, and the event loop runs
\* every task that is ready.
FairSpecApi ==
    /\ ApiInit
    /\ [][NextLive]_vars
    /\ WF_vars(ApiRunStep)
    /\ WF_vars(NextSeg)

----------------------------------------------------------------------------
(* Properties of the Locator *)

\* Inside the conversion of the current item.
Converting ==
    /\ stage \in {"mistakes", "inaccuracies", "vocabularies"}
    /\ lpc \in {"for", "while", "ret"}

\* The scan of the current error item is over: `ranges` is what it located.
ErrorScanned == IsErrorStage /\ lpc = "ret"

\* The scan of the current vocab item is over: `range` is what it located.
VocabScanned == stage = "vocabularies" /\ lpc = "ret"

\* Triple t addresses a slice of an existing segment.
InSegment(t) ==
    /\ t[1] \in 0..(Len(elevenlabs_segments) - 1)
    /\ 0 <= t[2]
    /\ t[2] <= t[3]
    /\ t[3] <= Len(elevenlabs_segments[t[1] + 1])

\* segments[segment_index].content[start:end]
Content(t) == Slice(elevenlabs_segments[t[1] + 1], t[2], t[3])

\* Even segment j (0-based) holds the quote somewhere.
Holds(j, q) ==
    \E s \in 0..Len(elevenlabs_segments[j + 1]) :
        OccursAt(elevenlabs_segments[j + 1], q, s)

EvenIndices == {j \in 0..(Len(elevenlabs_segments) - 1) : j % 2 = 0}

\* C1: every located triple (segment_index, start, end), in the list of the
\* multi-occurrence scan and in the result of the single-occurrence scan,
\* satisfies segments[segment_index].content[start:end] = quote.
C1_LocatorExact ==
    Converting =>
        /\ IsErrorStage =>
              \A n \in 1..Len(ranges) :
                  InSegment(ranges[n]) /\ Content(ranges[n]) = CurItem.quote
        /\ (stage = "vocabularies" /\ Len(range) = 3) =>
              InSegment(range) /\ Content(range) = CurItem.quote

C1_Witness ==
    /\ ErrorScanned
    /\ Len(CurItem.quote) = 2
    /\ Len(ranges) = 1
    /\ ranges[1][2] = 1

C3_StartBeforeEnd ==
    /\ ErrorScanned => \A n \in 1..Len(ranges) : ranges[n][2] < ranges[n][3]
    /\ (VocabScanned /\ range # None) => range[2] < range[3]

\* C4: the multi-occurrence scan locates exactly the greedy left-to-right
\* non-overlapping occurrences of the quote in the even-indexed segments:
\* every triple is an occurrence in an even segment, listed once, in order
\* and without overlap, and an occurrence that is not listed starts inside
\* a listed one that starts before it.
C4_GreedyEvenOccurrences ==
    ErrorScanned =>
        /\ \A n \in 1..Len(ranges) :
              /\ ranges[n][1] \in EvenIndices
              /\ OccursAt(elevenlabs_segments[ranges[n][1] + 1],
                          CurItem.quote, ranges[n][2])
              /\ ranges[n][3] = ranges[n][2] + Len(CurItem.quote)
        /\ \A n \in 1..(Len(ranges) - 1) :
              \/ ranges[n][1] < ranges[n + 1][1]
              \/ /\ ranges[n][1] = ranges[n + 1][1]
                 /\ ranges[n][3] <= ranges[n + 1][2]
                 /\ ranges[n][2] < ranges[n + 1][2]
        /\ \A j \in EvenIndices :
              \A s \in 0..Len(elevenlabs_segments[j + 1]) :
                  OccursAt(elevenlabs_segments[j + 1], CurItem.quote, s) =>
                      \E n \in 1..Len(ranges) :
                          /\ ranges[n][1] = j
                          /\ \/ ranges[n][2] = s
                             \/ ranges[n][2] < s /\ s < ranges[n][3]

\* Matches in segments 0 and 2 while segment 1 holds the quote too.
C4_Witness ==
    /\ ErrorScanned
    /\ Len(elevenlabs_segments) = 3
    /\ CurItem.quote # <<>>
    /\ Holds(1, CurItem.quote)
    /\ Len(ranges) = 2
    /\ ranges[1][1] = 0
    /\ ranges[2][1] = 2

\* C5: the single-occurrence scan locates one triple, the leftmost
\* occurrence in the lowest even-indexed segment holding the quote, and
\* nothing only if no even-indexed segment holds it.
C5_FirstMatchOnly ==
    VocabScanned =>
        IF \E j \in EvenIndices : Holds(j, CurItem.quote)
        THEN /\ Len(range) = 3
             /\ range[1] \in EvenIndices
             /\ OccursAt(elevenlabs_segments[range[1] + 1], CurItem.quote,
                         range[2])
             /\ range[3] = range[2] + Len(CurItem.quote)
             /\ \A j \in EvenIndices : j < range[1] => ~Holds(j, CurItem.quote)
             /\ \A s \in 0..(range[2] - 1) :
                   ~OccursAt(elevenlabs_segments[range[1] + 1],
                             CurItem.quote, s)
        ELSE range = None

\* Found in segment 2, not at its start, with a later occurrence unreported.
C5_Witness ==
    /\ VocabScanned
    /\ Len(range) = 3
    /\ range[1] = 2
    /\ range[2] = 1
    /\ OccursAt(elevenlabs_segments[3], CurItem.quote, 2)

\* The item's quote occurs in no even-indexed segment.
Unlocatable(item) == \A j \in EvenIndices : ~Holds(j, item.quote)

Locatable(item) == ~Unlocatable(item)

Lists == <<"mistakes", "inaccuracies", "vocabularies">>

Ord(L) == CHOOSE n \in 1..4 : <<"mistakes", "inaccuracies", "vocabularies",
                                "returned">>[n] = L

\* How many items of list L the batch has dealt with.
Handled(L) ==
    IF Ord(L) < Ord(stage) THEN Len(response[L])
    ELSE IF L = stage THEN k ELSE 0

\* The items dealt with so far, in processing order.
HandledItems ==
    Slice(response.mistakes, 0, Handled("mistakes"))
        \o Slice(response.inaccuracies, 0, Handled("inaccuracies"))
        \o Slice(response.vocabularies, 0, Handled("vocabularies"))

Out(L) ==
    CASE L = "mistakes" -> mistakes
      [] L = "inaccuracies" -> inaccuracies
      [] OTHER -> vocabularies

\* C6: an item whose quote occurs in no even-indexed segment is dropped
\* without raising: one warning is logged for it, no record is kept for it
\* (none with an empty range list either), the batch goes on, and each
\* output list is shorter by one per such item.
C6_UnlocatableDropped ==
    /\ lpc = "raised" => Locatable(CurItem)
    /\ lpc = "loop" =>
          /\ warned = SelectSeq(HandledItems, Unlocatable)
          /\ \A n \in 1..3 :
                Len(Out(Lists[n])) =
                    Handled(Lists[n])
                      - Cardinality({m \in 1..Handled(Lists[n]) :
                                        Unlocatable(response[Lists[n]][m])})
          /\ \A n \in 1..Len(mistakes) : mistakes[n].ranges # <<>>
          /\ \A n \in 1..Len(inaccuracies) : inaccuracies[n].ranges # <<>>
          /\ \A n \in 1..Len(vocabularies) : vocabularies[n].range # None

\* The batch returned after dropping an error item and a vocab item.
C6_Witness ==
    /\ stage = "returned"
    /\ Len(elevenlabs_segments) >= 1
    /\ Len(warned) = 2
    /\ Len(response.mistakes) + Len(response.inaccuracies) >= 1
    /\ Len(response.vocabularies) >= 1

\* C7: the batch conversion does not raise, and returns for every item whose
\* quote occurs in an even-indexed segment one located record with its
\* range(s) and metadata, in input order.
C7_LocatedItemsReturned ==
    /\ lpc # "raised"
    /\ stage = "returned" =>
          LET lm == SelectSeq(response.mistakes, Locatable)
              li == SelectSeq(response.inaccuracies, Locatable)
              lv == SelectSeq(response.vocabularies, Locatable)
          IN  /\ Len(mistakes) = Len(lm)
              /\ \A n \in 1..Len(lm) :
                    /\ mistakes[n].error_type = lm[n].error_type
                    /\ mistakes[n].correction = lm[n].correction
                    /\ mistakes[n].ranges # <<>>
              /\ Len(inaccuracies) = Len(li)
              /\ \A n \in 1..Len(li) :
                    /\ inaccuracies[n].error_type = li[n].error_type
                    /\ inaccuracies[n].correction = li[n].correction
                    /\ inaccuracies[n].ranges # <<>>
              /\ Len(vocabularies) = Len(lv)
              /\ \A n \in 1..Len(lv) :
                    /\ vocabularies[n].synonyms = lv[n].synonyms
                    /\ vocabularies[n].range # None

\* What the scan of an item converted alone locates is what its scan
\* located inside the batch.
SameAsInBatch ==
    (in_batch # None /\ lpc = "ret" /\ stage = in_batch[1]) =>
        /\ IsErrorStage => ranges = in_batch[3]
        /\ stage = "vocabularies" => range = in_batch[4]

\* C8: what the locator finds for an item depends only on the item's quote
\* and the segment list: it is the same inside any batch, after any other
\* items, as for the item alone, and the segment list is never changed.
C8_ItemIndependence ==
    /\ []SameAsInBatch
    /\ [][elevenlabs_segments' = elevenlabs_segments]_vars

\* An item located alone exactly as it was after another item of the batch.
C8_Witness ==
    /\ in_batch # None
    /\ lpc = "ret"
    /\ stage = in_batch[1]
    /\ in_batch[5] >= 1
    /\ IsErrorStage
    /\ ranges # <<>>
    /\ ranges = in_batch[3]

\* C9: every locator call terminates: an iteration of the scan loop that
\* finds a match resumes the search strictly further right, so the loop
\* ends within len(segment) iterations.
C9_ScanAdvances ==
    [][(lpc = "while" /\ lpc' = "while") => last_idx' > last_idx]_vars

\* The positions of the word-type tokens.
WordIdx == {n \in 1..Len(words) : IsWord(words[n])}

\* The speaker a token is attributed to.
Speaker(n) ==
    IF words[n].speaker_id = NoSpeaker THEN "speaker_0"
    ELSE words[n].speaker_id

\* The word-type tokens before position n.
WordsBefore(n) == {m \in WordIdx : m < n}

Max(S) == CHOOSE x \in S : \A y \in S : y <= x

\* The word-type tokens that open a run: the first one, and every one whose
\* speaker differs from the previous word-type token's.
RunStarts ==
    {n \in WordIdx : \/ WordsBefore(n) = {}
                     \/ Speaker(Max(WordsBefore(n))) # Speaker(n)}

\* The run opened at s: the word-type tokens up to the next opening.
RunOf(s) ==
    {n \in WordIdx : n >= s /\ \A m \in RunStarts : ~(s < m /\ m <= n)}

RECURSIVE Sorted(_)
Sorted(S) == IF S = {} THEN <<>> ELSE <<Min(S)>> \o Sorted(S \ {Min(S)})

\* The texts of the tokens at the positions S, in order.
TextsOf(S) == [m \in 1..Cardinality(S) |-> words[Sorted(S)[m]].text]

\* C10: segmentation yields the maximal same-speaker runs in original order:
\* there is one segment per run of consecutive word-type tokens of one
\* speaker, it carries that speaker and the space-join of the run's one or
\* more texts, adjacent segments have different speakers, and a transcript
\* with one speaker throughout yields exactly one segment.
C10_MaximalRuns ==
    spc = "done" =>
        /\ Len(segments) = Cardinality(RunStarts)
        /\ \A m \in 1..Len(segments) :
              m <= Cardinality(RunStarts) =>
                  LET s == Sorted(RunStarts)[m]
                  IN  /\ segments[m].speaker_id = Speaker(s)
                      /\ segments[m].content = Join(TextsOf(RunOf(s)))
        /\ \A m \in 1..(Len(segments) - 1) :
              segments[m].speaker_id # segments[m + 1].speaker_id
        /\ (WordIdx # {} /\ \A a, b \in WordIdx : Speaker(a) = Speaker(b))
              => Len(segments) = 1

\* content.split(" "): the pieces between single spaces (one empty piece
\* for the empty string).
RECURSIVE Split(_)
Split(str) ==
    IF \A n \in 1..Len(str) : str[n] # " " THEN <<str>>
    ELSE LET c == Min({n \in 1..Len(str) : str[n] = " "})
         IN  <<Slice(str, 0, c - 1)>> \o Split(Slice(str, c, Len(str)))

\* The pieces of the contents of the segments segs, in segment order.
RECURSIVE Pieces(_)
Pieces(segs) ==
    IF segs = <<>> THEN <<>>
    ELSE Split(segs[1].content) \o Pieces(Tail(segs))

\* C11: segmentation coverage: the contents of the returned segments, split
\* on single spaces and concatenated in segment order, are exactly the texts
\* of the word-type tokens in order.
C11_Coverage == spc = "done" => Pieces(segments) = WordTexts(words)

\* C12: segmentation is repeatable and pure: every call on the same Word
\* sequence returns what the calls before returned, and no step changes the
\* Word sequence or the transcript text.
C12_Repeatable ==
    /\ [](spc = "done" =>
              \A n \in 1..Len(returned) : returned[n] = segments)
    /\ [][words' = words /\ text' = text]_vars

C12_Witness ==
    /\ spc = "done"
    /\ Len(returned) = 1
    /\ Len(segments) = 2
    /\ returned[1] = segments

\* C13: an empty Word sequence is segmented into the empty segment list.
C13_EmptyInput == (spc = "done" /\ words = <<>>) => segments = <<>>

\* C14: a word-type token without speaker id counts as speaker_0's: every
\* returned segment has a speaker id, a transcript whose word-type tokens
\* all have speaker_0 or no speaker id yields one segment, and a word-type
\* token that follows one of speaker_0 or of no speaker, and is itself of
\* speaker_0 or of no speaker, is added to the run of that token.
C14_DefaultSpeaker ==
    /\ [](spc = "done" =>
              /\ \A m \in 1..Len(segments) :
                    segments[m].speaker_id # NoSpeaker
              /\ (WordIdx # {} /\ \A n \in WordIdx : Speaker(n) = "speaker_0")
                    => Len(segments) = 1)
    /\ [][(/\ spc = "scan"
           /\ pos' = pos + 1
           /\ IsWord(words[pos + 1])
           /\ WordsBefore(pos + 1) # {}
           /\ words[pos + 1].speaker_id \in {NoSpeaker, "speaker_0"}
           /\ words[Max(WordsBefore(pos + 1))].speaker_id
                 \in {NoSpeaker, "speaker_0"})
              => /\ sequences' = sequences
                 /\ current_speaker' = "speaker_0"
                 /\ current_sequence'
                       = Append(current_sequence, words[pos + 1].text)]_vars

C14_Witness ==
    /\ spc = "done"
    /\ Len(words) = 3
    /\ words[1].speaker_id = "speaker_0"
    /\ words[2].speaker_id = NoSpeaker
    /\ words[3].speaker_id = "speaker_1"
    /\ WordIdx = {1, 2, 3}
    /\ Len(segments) = 2
    /\ segments[1] = [speaker_id |-> "speaker_0",
                      content |-> words[1].text \o <<" ">> \o words[2].text]

----------------------------------------------------------------------------
(* Properties of the aligner *)

\* Whether sub is a subsequence of str: sub is str at increasing positions.
IsSubsequence(sub, str) ==
    \E S \in SUBSET (1..Len(str)) :
        /\ Cardinality(S) = Len(sub)
        /\ \A n \in 1..Len(sub) : sub[n] = str[Sorted(S)[n]]

\* C15: aligner reconstruction: the aligner returns one pair per reference
\* word, in the order of the words, the referenceChunk of a pair is that
\* word's phoneme sequence, and the referenceChunks concatenated are the
\* flat reference.
C15_Reconstruction ==
    /\ apc # "failed"
    /\ apc = "done" =>
          /\ Len(pairs) = Len(reference_words)
          /\ \A n \in 1..Len(pairs) : pairs[n][2] = reference_words[n]
          /\ Flat([n \in 1..Len(pairs) |-> pairs[n][2]])
                = Flat(reference_words)

C15_Witness ==
    /\ apc = "done"
    /\ Len(pairs) = 2
    /\ pairs[1][1] = <<>>
    /\ pairs[1][2] # <<>>
    /\ pairs[2][1] # pairs[2][2]
    /\ pairs[2][1] # <<>>

\* C16: the sequence reconstructed from the table has length table[m][n],
\* at most the length of the shorter input, and is a subsequence of the
\* hypothesis and of the flat reference.
C16_LCSBound ==
    apc \in {"walk", "done"} =>
        /\ Len(lcs) = table[Len(hypothesis), Len(Flat(reference_words))]
        /\ Len(lcs) <= Len(hypothesis)
        /\ Len(lcs) <= Len(Flat(reference_words))
        /\ IsSubsequence(lcs, hypothesis)
        /\ IsSubsequence(lcs, Flat(reference_words))

C16_Witness ==
    /\ apc = "walk"
    /\ Len(lcs) = 2
    /\ Len(hypothesis) = 3
    /\ Len(Flat(reference_words)) = 3
    /\ hypothesis # Flat(reference_words)
    /\ table[3, 3] = 2

\* C17: perfect alignment: a hypothesis that is the flat reference is
\* aligned into the pair (w, w) for every reference word w.
C17_PerfectAlignment ==
    hypothesis = Flat(reference_words) =>
        /\ apc # "failed"
        /\ apc = "done" =>
              pairs = [n \in 1..Len(reference_words) |->
                          <<reference_words[n], reference_words[n]>>]

C17_Witness ==
    /\ apc = "done"
    /\ hypothesis = Flat(reference_words)
    /\ Len(hypothesis) = 3
    /\ Len(pairs) = 2
    /\ Len(pairs[1][1]) = 1
    /\ Len(pairs[2][1]) = 2

----------------------------------------------------------------------------
(* Properties of the pipeline *)

\* The 0-based offsets at which q occurs in the string str.
Occurrences(q, str) == {a \in 0..Len(str) : OccursAt(str, q, a)}

\* The record rec of a served feedback list stands for item, located on the
\* served segment list segs: it carries the item's metadata and its range(s)
\* are occurrences of the quote in even-indexed segments of segs.
Delivers(rec, item, segs) ==
    LET OnSegs(rg) ==
            /\ rg[1] \in 0..(Len(segs) - 1)
            /\ rg[1] % 2 = 0
            /\ rg[2] \in Occurrences(item.quote, segs[rg[1] + 1].content)
            /\ rg[3] = rg[2] + Len(item.quote)
    IN  IF "synonyms" \in DOMAIN item
        THEN /\ rec.synonyms = item.synonyms
             /\ OnSegs(rec.range)
        ELSE /\ rec.error_type = item.error_type
             /\ rec.correction = item.correction
             /\ rec.ranges # <<>>
             /\ \A n \in 1..Len(rec.ranges) : OnSegs(rec.ranges[n])

\* C19: end-to-end delivery: when the status API serves a COMPLETE job, each
\* item of the language-feedback model's answer whose quote is a substring
\* of an even-indexed segment of the served result["elevenlabs"] is listed
\* in the served result["mistral"] with its range(s) on that segment list.
C19_Delivery ==
    \A n \in 1..Len(polled) :
        polled[n].status = "complete" =>
            LET segs == polled[n].result.elevenlabs
            IN  \A lst \in {"mistakes", "inaccuracies", "vocabularies"} :
                    \A j \in 1..Len(response[lst]) :
                        (\E t \in 0..(Len(segs) - 1) :
                            /\ t % 2 = 0
                            /\ Occurrences(response[lst][j].quote,
                                           segs[t + 1].content) # {})
                        => \E m \in 1..Len(polled[n].result.mistral[lst]) :
                              Delivers(polled[n].result.mistral[lst][m],
                                       response[lst][j], segs)

\* C20: client polling terminates: after the upload, the polling client
\* eventually gets a record whose status is "completed".
C20_PollingTerminates ==
    <>(polled # <<>> /\ polled[1].status = "completed")

----------------------------------------------------------------------------
(* Properties of the registry and of the requests *)

\* The ids of the registry.
Registry == 1..Len(active_processes)

\* The runs scheduled for the record of id process_id.
RunsOf(process_id) ==
    {r \in 1..Len(runs) : runs[r].process_id = process_id}

\* C21: upload does not start processing: POST /upload registers the new
\* record as uploaded with result and error null and schedules nothing, the
\* record stays exactly so and has no run while its status is uploaded, and
\* the only step that changes it is POST /start-processing for its id, which
\* sets the status to pending and schedules the run.
C21_UploadOnly ==
    [][/\ \A filename \in Filenames :
              (upload_file(filename) /\ reply' = Answer("upload", 200)) =>
                  /\ active_processes' =
                        Append(active_processes, ProcessInfo("uploaded"))
                  /\ ProcessInfo("uploaded").result = None
                  /\ ProcessInfo("uploaded").error = None
                  /\ runs' = runs
       /\ \A process_id \in Registry :
              active_processes[process_id].status = "uploaded" =>
                  /\ active_processes[process_id] = ProcessInfo("uploaded")
                  /\ RunsOf(process_id) = {}
                  /\ \/ /\ active_processes'[process_id]
                               = active_processes[process_id]
                        /\ \A r \in 1..Len(runs') :
                              runs'[r].process_id # process_id
                     \/ /\ start_processing(process_id)
                        /\ active_processes'[process_id].status = "pending"
                        /\ runs' = Append(runs, Task(process_id))]_vars

\* The first record is still as it was uploaded although the record made
\* from it by /reprocess has been processed to the end.
C21_Witness ==
    /\ Len(active_processes) = 2
    /\ active_processes[1] = ProcessInfo("uploaded")
    /\ active_processes[2].status = "complete"
    /\ RunsOf(1) = {}

\* C22: reprocess: POST /reprocess for any id of the registry registers a
\* new pending record under a fresh id, schedules a run for it and leaves
\* the original record as it was.
C22_Reprocess ==
    [][\A process_id \in Registry :
          reprocess_audio(process_id) =>
              LET new_process_id == Len(active_processes) + 1
              IN  /\ Len(active_processes') = new_process_id
                  /\ active_processes'[new_process_id]
                        = ProcessInfo("pending")
                  /\ runs' = Append(runs, Task(new_process_id))
                  /\ active_processes'[process_id]
                        = active_processes[process_id]]_vars

\* C23: best-effort pipeline: a record becomes failed only by the step in
\* which speech_to_text raises; every run that got its transcript ends with
\* its record complete and the record's result holding the segments it had
\* stored, the phonemes or an error entry, the feedback lists (located or
\* all three empty) and a summary.
C23_BestEffort ==
    [][\A r \in 1..Len(runs) :
          LET process_id == runs[r].process_id
              failing == /\ active_processes'[process_id].status = "failed"
                         /\ active_processes[process_id].status # "failed"
              ending == runs[r].pc # "end" /\ runs'[r].pc = "end"
              result == runs'[r].partial_results
          IN  /\ (failing /\ runs'[r] # runs[r]) => runs[r].pc = "stt"
              /\ (ending /\ runs[r].pc # "stt") =>
                    /\ active_processes'[process_id].status = "complete"
                    /\ active_processes'[process_id].result = <<r>>
                    /\ DOMAIN result = {"elevenlabs", "allosaurus",
                                        "mistral", "summary"}
                    /\ result["elevenlabs"]
                          = runs[r].partial_results["elevenlabs"]
                    /\ result["allosaurus"] \in {"phonemes", "error"}
                    /\ result["mistral"] \in
                          {MistralFailed["mistral"],
                           [mistakes |-> mistakes,
                            inaccuracies |-> inaccuracies,
                            vocabularies |-> vocabularies]}]_vars

\* A run whose phoneme recognition failed has ended with its record
\* complete.
C23_Witness ==
    \E r \in 1..Len(runs) :
        /\ runs[r].pc = "end"
        /\ active_processes[runs[r].process_id].status = "complete"
        /\ active_processes[runs[r].process_id].result = <<r>>
        /\ runs[r].partial_results["allosaurus"] = "error"

C25_RunsEnd ==
    \A r \in 1..ApiMaxRuns :
        (r <= Len(runs)) ~>
            (/\ r <= Len(runs)
             /\ runs[r].pc = "end"
             /\ active_processes[runs[r].process_id].status
                    \in {"complete", "failed"})

\* The run scheduled by /reprocess has ended.
C25_Witness ==
    /\ Len(active_processes) = 2
    /\ files = {1, 2}
    /\ Len(runs) = 1
    /\ runs[1].process_id = 2
    /\ runs[1].pc = "end"
    /\ active_processes[2].status \in {"complete", "failed"}

\* The place of a status in PENDING, ELEVENLABS_PROCESSING,
\* ELEVENLABS_COMPLETE, ALLOSAURUS_PROCESSING, MISTRAL_PROCESSING, COMPLETE.
Order ==
    <<"pending", "elevenlabs_processing", "elevenlabs_complete",
      "allosaurus_processing", "mistral_processing", "complete">>

InOrder(status) == \E n \in 1..Len(Order) : Order[n] = status

Place(status) == CHOOSE n \in 1..Len(Order) : Order[n] = status

\* C26: status order within one run: while a run of a record is under way,
\* every change of the record's status moves forward in the order, or goes
\* from elevenlabs_processing to failed, and never to allosaurus_complete.
C26_StatusOrder ==
    [][\A process_id \in Registry :
          LET before == active_processes[process_id].status
              after == active_processes'[process_id].status
          IN  ((\E r \in RunsOf(process_id) : runs[r].pc # "end")
                  /\ after # before) =>
                  \/ /\ before = "elevenlabs_processing"
                     /\ after = "failed"
                  \/ /\ InOrder(before)
                     /\ InOrder(after)
                     /\ Place(before) < Place(after)]_vars

\* C27: at most one pipeline run is ever scheduled for a process id.
C27_OneRun ==
    \A process_id \in Registry : Cardinality(RunsOf(process_id)) <= 1

\* C28: a record's error is set if and only if its status is failed.
C28_ErrorIffFailed ==
    \A process_id \in Registry :
        active_processes[process_id].error # None
            <=> active_processes[process_id].status = "failed"

\* C29: GET /status serves a complete record with a result holding the four
\* keys elevenlabs, allosaurus, mistral and summary, and a record that is
\* elevenlabs_complete, allosaurus_processing or mistral_processing with a
\* result holding elevenlabs.
C29_PartialResults ==
    \A process_id \in Registry :
        LET result == check_status(process_id).result
            status == active_processes[process_id].status
        IN  /\ status = "complete" =>
                  /\ result # None
                  /\ {"elevenlabs", "allosaurus", "mistral", "summary"}
                        \subseteq DOMAIN result
            /\ status \in {"elevenlabs_complete", "allosaurus_processing",
                            "mistral_processing"} =>
                  /\ result # None
                  /\ "elevenlabs" \in DOMAIN result

\* A record is served with its segments and nothing else while its phonemes
\* are awaited.
C29_Witness ==
    \E process_id \in Registry :
        /\ active_processes[process_id].status = "elevenlabs_complete"
        /\ DOMAIN check_status(process_id).result = {"elevenlabs"}
        /\ check_status(process_id).result["elevenlabs"] # <<>>

\* C30: rejected requests change nothing: an upload whose file name does not
\* end in .wav is answered 400, a status, start or reprocess request for an
\* id that is not in the registry is answered 404, each leaves the registry,
\* the files and the scheduled runs as they were, and no step removes a
\* record.
C30_RejectedRequests ==
    [][/\ \A filename \in Filenames :
              (upload_file(filename)
                  /\ ~endswith(filename, <<".", "w", "a", "v">>)) =>
                  /\ reply' = Answer("upload", 400)
                  /\ UNCHANGED <<active_processes, runs, files>>
       /\ \A process_id \in ProcessIds \ Registry :
              /\ GetStatus(process_id) =>
                    /\ reply' = Answer("status", 404)
                    /\ UNCHANGED <<active_processes, runs, files>>
              /\ start_processing(process_id) =>
                    /\ reply' = Answer("start-processing", 404)
                    /\ UNCHANGED <<active_processes, runs, files>>
              /\ reprocess_audio(process_id) =>
                    /\ reply' = Answer("reprocess", 404)
                    /\ UNCHANGED <<active_processes, runs, files>>
       /\ (reply' # reply /\ reply'[2] \in {400, 404}) =>
              UNCHANGED <<active_processes, runs, files>>
       /\ Len(active_processes') >= Len(active_processes)]_vars

\* A request for an id that is not in the registry has been answered 404 and
\* the uploaded record is as it was.
C30_Witness ==
    /\ reply = Answer("reprocess", 404)
    /\ active_processes = <<ProcessInfo("uploaded")>>
    /\ files = {1}
    /\ runs = <<>>

====
